---------------------------- MODULE Spec2Model ----------------------------
(***************************************************************************)
(* Adaptive assessment engine (backend/adaptive_engine.py) together with   *)
(* the FastAPI handlers of backend/server.py that drive it                 *)
(* (/adaptive-assessment/start, /next-question, /submit-answer,            *)
(* /analytics, and POST /questions).                                       *)
(*                                                                         *)
(* Numbers.  The engine computes with Python floats.  Here every ability,  *)
(* difficulty and quality value is a fixed-point integer in units of       *)
(* 1/Scale (Scale = 10000, so 0.475 is 4750); an ability adjustment is     *)
(* carried in units of 1/Fine (Fine = 1000000) and truncated toward zero.  *)
(*                                                                         *)
(* Scheduling.  The handlers are coroutines on one asyncio event loop: the *)
(* code between two awaits runs atomically, and at an await any other      *)
(* handler may run.  Each handler is therefore one action per segment      *)
(* between awaits; the engine methods are synchronous and are operators.   *)
(***************************************************************************)
EXTENDS Integers, Sequences, FiniteSets, TLC

(***************************************************************************)
(* Bounds of the model.                                                    *)
(***************************************************************************)
\* seconds the clock advances in a run
MaxTime == 1
\* request handlers suspended at an await at the same time
MaxInFlight == 1
\* state-growing calls in a run: sessions started, questions created,
\* answers submitted and assistance events recorded
MaxCalls == 4

Scale == 10 * 1000
Fine == 100 * Scale

\* Python's Optional: None is the empty tuple and a value v is << v >>
None == << >>
Some(v) == << v >>

Range(s) == {s[i] : i \in DOMAIN s}
Min2(a, b) == IF a <= b THEN a ELSE b
Max2(a, b) == IF a >= b THEN a ELSE b
\* Python float division/multiplication results, kept to the fixed-point
\* grid by truncation toward zero.
TruncDiv(x, n) == IF x >= 0 THEN x \div n ELSE -((-x) \div n)
\* TruncDiv(x * m, n) for m >= 0, computed without the large product
MulDiv(x, m, n) ==
    IF x >= 0 THEN (x \div n) * m + ((x % n) * m) \div n
    ELSE -(((-x) \div n) * m + (((-x) % n) * m) \div n)

(***************************************************************************)
(* GradeLevel and AdaptiveEngine.grade_level_mapping.                      *)
(***************************************************************************)
GradeOrder ==
    << "kindergarten", "grade_1", "grade_2", "grade_3", "grade_4", "grade_5",
       "grade_6", "grade_7", "grade_8", "grade_9", "grade_10", "grade_11",
       "grade_12", "undergraduate", "graduate", "doctoral", "postdoctoral",
       "professional" >>

GradeLevel == Range(GradeOrder)

grade_level_mapping ==
    [g \in GradeLevel |->
        CASE g = "kindergarten"  -> << 0, 1000 >>
          [] g = "grade_1"       -> << 1000, 1500 >>
          [] g = "grade_2"       -> << 1500, 2000 >>
          [] g = "grade_3"       -> << 2000, 2500 >>
          [] g = "grade_4"       -> << 2500, 3000 >>
          [] g = "grade_5"       -> << 3000, 3500 >>
          [] g = "grade_6"       -> << 3500, 4000 >>
          [] g = "grade_7"       -> << 4000, 4500 >>
          [] g = "grade_8"       -> << 4500, 5000 >>
          [] g = "grade_9"       -> << 5000, 5500 >>
          [] g = "grade_10"      -> << 5500, 6000 >>
          [] g = "grade_11"      -> << 6000, 6500 >>
          [] g = "grade_12"      -> << 6500, 7000 >>
          [] g = "undergraduate" -> << 7000, 8000 >>
          [] g = "graduate"      -> << 8000, 9000 >>
          [] g = "doctoral"      -> << 9000, 9500 >>
          [] g = "postdoctoral"  -> << 9500, 10000 >>
          [] g = "professional"  -> << 5000, 10000 >> ]

(***************************************************************************)
(* AdaptiveEngine.estimate_initial_ability(user_age, grade_level).         *)
(* An argument that is None (or falsy: age 0) skips its branch.            *)
(***************************************************************************)
\* estimate_initial_ability that looks at the age before the grade level
estimate_initial_ability_age_first(user_age, grade_level) ==
    IF user_age # None /\ user_age[1] # 0
    THEN IF user_age[1] <= 6 THEN 500
         ELSE IF user_age[1] <= 18
              THEN Min2(500 + (user_age[1] - 6) * 550, 7000)
         ELSE IF user_age[1] <= 22 THEN 7500
         ELSE IF user_age[1] <= 26 THEN 8500
         ELSE 9000
    ELSE IF grade_level # None
    THEN (grade_level_mapping[grade_level[1]][1]
            + grade_level_mapping[grade_level[1]][2]) \div 2
    ELSE 5000

estimate_initial_ability(user_age, grade_level) ==
    IF grade_level # None
    THEN (grade_level_mapping[grade_level[1]][1]
            + grade_level_mapping[grade_level[1]][2]) \div 2
    ELSE IF user_age # None /\ user_age[1] # 0
    THEN IF user_age[1] <= 6 THEN 500
         ELSE IF user_age[1] <= 18
              THEN Min2(500 + (user_age[1] - 6) * 550, 7000)
         ELSE IF user_age[1] <= 22 THEN 7500
         ELSE IF user_age[1] <= 26 THEN 8500
         ELSE 9000
    ELSE 5000

(***************************************************************************)
(* AdaptiveEngine.calculate_question_difficulty(question_data).            *)
(* question_data is a record with the fields complexity, grade_level,      *)
(* requires_prior_knowledge, multi_step, abstract_reasoning; a key the     *)
(* dict does not have is a field the record does not have.                 *)
(***************************************************************************)
\* dict.get(key, default)
Get(dict, key, default) == IF key \in DOMAIN dict THEN dict[key] ELSE default

base_difficulty(complexity) ==
    CASE complexity = "basic"         -> 2000
      [] complexity = "comprehension" -> 3000
      [] complexity = "application"   -> 5000
      [] complexity = "analysis"      -> 7000
      [] complexity = "synthesis"     -> 8000
      [] complexity = "evaluation"    -> 9000
      [] complexity = "research"      -> 9500
      [] OTHER                        -> 5000

\* the local `difficulty` before the final min(max(difficulty, 0.0), 1.0)
raw_difficulty(question_data) ==
    LET difficulty ==
            base_difficulty(Get(question_data, "complexity", "application"))
        grade_level == Get(question_data, "grade_level", "grade_8")
        scaled ==
            IF grade_level \in GradeLevel
            THEN grade_level_mapping[grade_level][1]
                 + TruncDiv(difficulty * (grade_level_mapping[grade_level][2]
                                          - grade_level_mapping[grade_level][1]),
                            Scale)
            ELSE difficulty
        withFlags ==
            scaled
            + (IF Get(question_data, "requires_prior_knowledge", FALSE)
               THEN 1000 ELSE 0)
            + (IF Get(question_data, "multi_step", FALSE) THEN 1000 ELSE 0)
            + (IF Get(question_data, "abstract_reasoning", FALSE)
               THEN 1500 ELSE 0)
    IN  withFlags

\* calculate_question_difficulty without its final clamp
calculate_question_difficulty_unclamped(question_data) ==
    raw_difficulty(question_data)

calculate_question_difficulty(question_data) ==
    Min2(Max2(raw_difficulty(question_data), 0), Scale)

(***************************************************************************)
(* AdaptiveEngine._calculate_information(ability, difficulty):             *)
(*     prob = 1 / (1 + exp(-(ability - difficulty) * 1.7))                 *)
(*     information = prob * (1 - prob)                                     *)
(* The value is used only in the comparison `information >                 *)
(* max_information` of select_next_question.  prob*(1-prob) equals         *)
(* 1 / (2 + exp(x) + exp(-x)) with x = 1.7*(ability - difficulty): it is   *)
(* strictly decreasing in |ability - difficulty|.  It is modelled by the   *)
(* rational num/den = 1/(1 + |ability - difficulty|), which orders every   *)
(* pair of arguments as the code's value does.  In IEEE double arithmetic  *)
(* the code's value is exactly 0.0 when ability - difficulty >= 21.6099    *)
(* (1 + exp(-x) rounds to 1.0, prob = 1.0) and when difficulty - ability   *)
(* >= 417.5193 (exp overflows to inf, prob = 0.0); there num is 0.         *)
(***************************************************************************)
_calculate_information(ability, difficulty) ==
    LET diff == ability - difficulty
    IN  [ num |-> IF diff >= 216099 \/ diff <= -4175193 THEN 0 ELSE 1,
          den |-> 1 + (IF diff >= 0 THEN diff ELSE -diff) ]

\* information > max_information, on the rationals above
InfoGreater(information, max_information) ==
    information.num * max_information.den > max_information.num * information.den

ZeroInformation == [ num |-> 0, den |-> 1 ]

\* the texts given as think-aloud `reasoning`
TextInputs ==
    { "",
      "Because",
      "It is likely 4",
      "because because",
      "First compare, then ANALYZE",
      "I added two and two and got four, so I am sure.!!!",
      "I added two and two and got four, so I am sure.!!!!",
      "I added two and two and got four. I am sure of it since two plus two always makes four..............",
      "I added two and two and got four. I am sure of it since two plus two always makes four...............",
      "First I compare the numbers, then I analyze each step; for example two and two. Therefore, because of this, the answer is four." }

(***************************************************************************)
(* Strings.  A text is named by a string; Characters gives the characters  *)
(* of each text that occurs as a think-aloud `reasoning` input.            *)
(***************************************************************************)
Characters ==
    [ t \in TextInputs |->
        CASE t = "" ->
                << >>
          [] t = "Because" ->
                << "B", "e", "c", "a", "u", "s", "e" >>
          [] t = "It is likely 4" ->
                << "I", "t", " ", "i", "s", " ", "l", "i", "k", "e", "l",
                "y", " ", "4" >>
          [] t = "because because" ->
                << "b", "e", "c", "a", "u", "s", "e", " ", "b", "e", "c",
                "a", "u", "s", "e" >>
          [] t = "First compare, then ANALYZE" ->
                << "F", "i", "r", "s", "t", " ", "c", "o", "m", "p", "a",
                "r", "e", ",", " ", "t", "h", "e", "n", " ", "A", "N", "A",
                "L", "Y", "Z", "E" >>
          [] t = "I added two and two and got four, so I am sure.!!!" ->
                << "I", " ", "a", "d", "d", "e", "d", " ", "t", "w", "o",
                " ", "a", "n", "d", " ", "t", "w", "o", " ", "a", "n", "d",
                " ", "g", "o", "t", " ", "f", "o", "u", "r", ",", " ", "s",
                "o", " ", "I", " ", "a", "m", " ", "s", "u", "r", "e", ".",
                "!", "!", "!" >>
          [] t = "I added two and two and got four, so I am sure.!!!!" ->
                << "I", " ", "a", "d", "d", "e", "d", " ", "t", "w", "o",
                " ", "a", "n", "d", " ", "t", "w", "o", " ", "a", "n", "d",
                " ", "g", "o", "t", " ", "f", "o", "u", "r", ",", " ", "s",
                "o", " ", "I", " ", "a", "m", " ", "s", "u", "r", "e", ".",
                "!", "!", "!", "!" >>
          [] t = "I added two and two and got four. I am sure of it since two plus two always makes four.............." ->
                << "I", " ", "a", "d", "d", "e", "d", " ", "t", "w", "o",
                " ", "a", "n", "d", " ", "t", "w", "o", " ", "a", "n", "d",
                " ", "g", "o", "t", " ", "f", "o", "u", "r", ".", " ", "I",
                " ", "a", "m", " ", "s", "u", "r", "e", " ", "o", "f", " ",
                "i", "t", " ", "s", "i", "n", "c", "e", " ", "t", "w", "o",
                " ", "p", "l", "u", "s", " ", "t", "w", "o", " ", "a", "l",
                "w", "a", "y", "s", " ", "m", "a", "k", "e", "s", " ", "f",
                "o", "u", "r", ".", ".", ".", ".", ".", ".", ".", ".", ".",
                ".", ".", ".", ".", "." >>
          [] t = "I added two and two and got four. I am sure of it since two plus two always makes four..............." ->
                << "I", " ", "a", "d", "d", "e", "d", " ", "t", "w", "o",
                " ", "a", "n", "d", " ", "t", "w", "o", " ", "a", "n", "d",
                " ", "g", "o", "t", " ", "f", "o", "u", "r", ".", " ", "I",
                " ", "a", "m", " ", "s", "u", "r", "e", " ", "o", "f", " ",
                "i", "t", " ", "s", "i", "n", "c", "e", " ", "t", "w", "o",
                " ", "p", "l", "u", "s", " ", "t", "w", "o", " ", "a", "l",
                "w", "a", "y", "s", " ", "m", "a", "k", "e", "s", " ", "f",
                "o", "u", "r", ".", ".", ".", ".", ".", ".", ".", ".", ".",
                ".", ".", ".", ".", ".", "." >>
          [] t = "First I compare the numbers, then I analyze each step; for example two and two. Therefore, because of this, the answer is four." ->
                << "F", "i", "r", "s", "t", " ", "I", " ", "c", "o", "m",
                "p", "a", "r", "e", " ", "t", "h", "e", " ", "n", "u", "m",
                "b", "e", "r", "s", ",", " ", "t", "h", "e", "n", " ", "I",
                " ", "a", "n", "a", "l", "y", "z", "e", " ", "e", "a", "c",
                "h", " ", "s", "t", "e", "p", ";", " ", "f", "o", "r", " ",
                "e", "x", "a", "m", "p", "l", "e", " ", "t", "w", "o", " ",
                "a", "n", "d", " ", "t", "w", "o", ".", " ", "T", "h", "e",
                "r", "e", "f", "o", "r", "e", ",", " ", "b", "e", "c", "a",
                "u", "s", "e", " ", "o", "f", " ", "t", "h", "i", "s", ",",
                " ", "t", "h", "e", " ", "a", "n", "s", "w", "e", "r", " ",
                "i", "s", " ", "f", "o", "u", "r", "." >> ]

\* str.lower() on one character
LowerChar(c) ==
    CASE c = "A" -> "a" [] c = "B" -> "b" [] c = "C" -> "c" [] c = "D" -> "d"
      [] c = "E" -> "e" [] c = "F" -> "f" [] c = "G" -> "g" [] c = "H" -> "h"
      [] c = "I" -> "i" [] c = "J" -> "j" [] c = "K" -> "k" [] c = "L" -> "l"
      [] c = "M" -> "m" [] c = "N" -> "n" [] c = "O" -> "o" [] c = "P" -> "p"
      [] c = "Q" -> "q" [] c = "R" -> "r" [] c = "S" -> "s" [] c = "T" -> "t"
      [] c = "U" -> "u" [] c = "V" -> "v" [] c = "W" -> "w" [] c = "X" -> "x"
      [] c = "Y" -> "y" [] c = "Z" -> "z" [] OTHER -> c

Lower(chars) == [ i \in DOMAIN chars |-> LowerChar(chars[i]) ]

\* Python's `needle in haystack` on strings
IsSubstring(needle, haystack) ==
    \E i \in 0 .. (Len(haystack) - Len(needle)) :
        SubSeq(haystack, i + 1, i + Len(needle)) = needle

indicators ==
    << << "b", "e", "c", "a", "u", "s", "e" >>,
       << "t", "h", "e", "r", "e", "f", "o", "r", "e" >>,
       << "s", "i", "n", "c", "e" >>,
       << "d", "u", "e", " ", "t", "o" >>,
       << "a", "s", " ", "a", " ", "r", "e", "s", "u", "l", "t" >>,
       << "f", "i", "r", "s", "t" >>,
       << "t", "h", "e", "n" >>,
       << "n", "e", "x", "t" >>,
       << "f", "i", "n", "a", "l", "l", "y" >>,
       << "s", "t", "e", "p" >>,
       << "s", "i", "m", "i", "l", "a", "r" >>,
       << "d", "i", "f", "f", "e", "r", "e", "n", "t" >>,
       << "c", "o", "m", "p", "a", "r", "e" >>,
       << "c", "o", "n", "t", "r", "a", "s", "t" >>,
       << "e", "x", "a", "m", "p", "l", "e" >>,
       << "i", "n", "s", "t", "a", "n", "c", "e" >>,
       << "s", "u", "c", "h", " ", "a", "s" >>,
       << "l", "i", "k", "e" >>,
       << "a", "n", "a", "l", "y", "z", "e" >>,
       << "e", "v", "a", "l", "u", "a", "t", "e" >>,
       << "c", "o", "n", "s", "i", "d", "e", "r" >>,
       << "e", "x", "a", "m", "i", "n", "e" >> >>

(***************************************************************************)
(* AdaptiveEngine._assess_reasoning_quality(think_aloud_data).             *)
(* think_aloud_data is a record with the field reasoning (a text).         *)
(***************************************************************************)
\* the score without the final min(quality_score, 1.0)
QualityScore_uncapped(text) ==
    LET reasoning == Lower(Characters[text])
        hits == Cardinality({ i \in DOMAIN indicators :
                                IsSubstring(indicators[i], reasoning) })
    IN  hits * 1000
        + (IF Len(reasoning) > 50 THEN 2000 ELSE 0)
        + (IF Len(reasoning) > 100 THEN 2000 ELSE 0)

QualityScore(text) ==
    LET reasoning == Lower(Characters[text])
        hits == Cardinality({ i \in DOMAIN indicators :
                                IsSubstring(indicators[i], reasoning) })
        quality_score ==
            hits * 1000
            + (IF Len(reasoning) > 50 THEN 2000 ELSE 0)
            + (IF Len(reasoning) > 100 THEN 2000 ELSE 0)
    IN  Min2(quality_score, Scale)

\* the score of every text, computed once
QualityScores == [ text \in DOMAIN Characters |-> QualityScore(text) ]

_assess_reasoning_quality(think_aloud_data) ==
    QualityScores[Get(think_aloud_data, "reasoning", "")]

(***************************************************************************)
(* AdaptiveEngine.determine_grade_level(ability_score): the first entry of *)
(* the mapping, in insertion order, whose closed range holds the score.    *)
(***************************************************************************)
\* determine_grade_level comparing with < on both sides
determine_grade_level_strict(ability_score) ==
    LET matches == { i \in DOMAIN GradeOrder :
                        /\ grade_level_mapping[GradeOrder[i]][1] < ability_score
                        /\ ability_score < grade_level_mapping[GradeOrder[i]][2] }
    IN  IF matches # {}
        THEN GradeOrder[CHOOSE i \in matches : \A j \in matches : i <= j]
        ELSE IF ability_score < 1000 THEN "kindergarten"
        ELSE IF ability_score > 9500 THEN "postdoctoral"
        ELSE "grade_8"

determine_grade_level(ability_score) ==
    LET matches == { i \in DOMAIN GradeOrder :
                        /\ grade_level_mapping[GradeOrder[i]][1] <= ability_score
                        /\ ability_score <= grade_level_mapping[GradeOrder[i]][2] }
    IN  IF matches # {}
        THEN GradeOrder[CHOOSE i \in matches : \A j \in matches : i <= j]
        ELSE IF ability_score < 1000 THEN "kindergarten"
        ELSE IF ability_score > 9500 THEN "postdoctoral"
        ELSE "grade_8"

(***************************************************************************)
(* Inputs of the model.                                                    *)
(***************************************************************************)
Users == { "u1" }
Subjects == { "mathematics" }

\* session_id = f"session_{user_id}_{int(datetime.now().timestamp())}":
\* the pair of the user and the second of the clock.
SessionIds == Users \X (0 .. MaxTime)

\* question ids are uuid4 strings, fresh per question: the n-th question
\* created is named n.  A request names a question that exists or the one
\* that does not exist yet.

\* bodies of the POST /questions requests (QuestionCreate) of a run, in the
\* order they are posted
QuestionInputs ==
    << [ subject |-> "mathematics", complexity |-> "basic",
         grade_level |-> "grade_3", requires_prior_knowledge |-> FALSE,
         multi_step |-> FALSE, abstract_reasoning |-> FALSE,
         correct_answer |-> "4" ],
       [ subject |-> "mathematics", complexity |-> "analysis",
         grade_level |-> "undergraduate", requires_prior_knowledge |-> FALSE,
         multi_step |-> FALSE, abstract_reasoning |-> TRUE,
         correct_answer |-> "4" ] >>

\* AdaptiveAnswerSubmission bodies, without session_id and question_id;
\* the answers are already lower-cased and stripped
SubmissionInputs ==
    { [ answer |-> "4", response_time_seconds |-> 5,
        think_aloud_data |-> None,
        ai_help_used |-> FALSE, ai_help_details |-> None ],
      [ answer |-> "5", response_time_seconds |-> 30,
        think_aloud_data |-> Some([ reasoning |-> "Because" ]),
        ai_help_used |-> FALSE, ai_help_details |-> None ],
      [ answer |-> "4", response_time_seconds |-> 90,
        think_aloud_data |-> None,
        ai_help_used |-> TRUE,
        ai_help_details |-> Some([ type |-> "hint", content |-> "c" ]) ] }

\* initial_ability arguments of a direct start_adaptive_session call
InitialAbilityHints == { None, Some(15000) }

\* AdaptiveAssessmentStart bodies (target_grade_level, max_questions)
AssessmentInputs ==
    { [ target_grade_level |-> Some("grade_8"), max_questions |-> 1 ] }

VARIABLES
    now,                   \* int(datetime.now().timestamp())
    db_questions,          \* the db.questions collection, in insertion order
    heap,                  \* the AdaptiveSession objects ever constructed
    session_data,          \* adaptive_engine.session_data: id -> object (0: absent)
    question_difficulties, \* adaptive_engine.question_difficulties
    inflight,              \* the suspended request handlers
    result,                \* what the last step returned to its caller
    history                \* per session id, what its callers have seen

vars == << now, db_questions, heap, session_data, question_difficulties,
           inflight, result, history >>

Slots == 1 .. MaxInFlight

Idle ==
    [ op |-> "idle", pc |-> "idle", sid |-> None, ref |-> 0, qid |-> 0,
      subject |-> "", answer |-> "", response_time |-> 0,
      think_aloud_data |-> None, ai_help_used |-> FALSE,
      ai_help_details |-> None, is_correct |-> FALSE,
      ability_before |-> 0, ability_after |-> 0 ]

NoResult ==
    [ op |-> "none", sid |-> None, status |-> "none", known |-> FALSE,
      exhausted |-> FALSE, issued |-> FALSE, body |-> None ]

NoHistory == [ returned |-> << >>, completed |-> FALSE, max_questions |-> None ]

\* the first free slot takes the next request
FreeSlot(slot) ==
    /\ inflight[slot].op = "idle"
    /\ \A other \in Slots : other < slot => inflight[other].op # "idle"

(***************************************************************************)
(* AdaptiveEngine.select_next_question(session_id, available_questions).   *)
(* The loop keeps the first question whose information is strictly greater *)
(* than every earlier one's; None for an unknown session or when nothing   *)
(* beat max_information = 0.                                               *)
(***************************************************************************)
RECURSIVE SelectLoop(_, _, _, _, _)
SelectLoop(questions, asked, current_ability, best_question, max_information) ==
    IF questions = << >> THEN best_question
    ELSE LET question == Head(questions)
             information ==
                 _calculate_information(current_ability,
                                        calculate_question_difficulty(question))
         IN  IF question.id \in Range(asked)
             THEN SelectLoop(Tail(questions), asked, current_ability,
                             best_question, max_information)
             ELSE IF InfoGreater(information, max_information)
             THEN SelectLoop(Tail(questions), asked, current_ability,
                             Some(question), information)
             ELSE SelectLoop(Tail(questions), asked, current_ability,
                             best_question, max_information)

\* select_next_question without the `question_id in session.questions_asked`
\* skip of its loop
select_next_question_unfiltered(session_id, available_questions) ==
    IF session_data[session_id] = 0 THEN None
    ELSE LET session == heap[session_data[session_id]]
         IN  SelectLoop(available_questions, << >>,
                        session.current_ability_estimate, None, ZeroInformation)

select_next_question(session_id, available_questions) ==
    IF session_data[session_id] = 0 THEN None
    ELSE LET session == heap[session_data[session_id]]
         IN  SelectLoop(available_questions, session.questions_asked,
                        session.current_ability_estimate, None, ZeroInformation)

(***************************************************************************)
(* AdaptiveEngine.update_ability_estimate: the value returned, which is    *)
(* also the value stored in the session's current_ability_estimate.        *)
(***************************************************************************)
\* an adjustment whose incorrect branch lost its minus sign
adjustment_unsigned(current_ability, question_difficulty, is_correct, response_time, think_aloud_data) ==
    LET base ==
            IF is_correct
            THEN TruncDiv((Scale - current_ability)
                            * (Scale - question_difficulty), 1000)
            ELSE TruncDiv(current_ability * question_difficulty, 1000)
        timed ==
            IF response_time < 10 THEN TruncDiv(base * 12, 10)
            ELSE IF response_time > 60 THEN TruncDiv(base * 8, 10)
            ELSE base
    IN  IF think_aloud_data # None
        THEN MulDiv(timed, 8000 + TruncDiv(
                 4 * _assess_reasoning_quality(think_aloud_data[1]), 10),
                 Scale)
        ELSE timed

\* an adjustment whose latency tests include the bounds 10 and 60
adjustment_inclusive_latency(current_ability, question_difficulty, is_correct, response_time, think_aloud_data) ==
    LET base ==
            IF is_correct
            THEN TruncDiv((Scale - current_ability)
                            * (Scale - question_difficulty), 1000)
            ELSE - TruncDiv(current_ability * question_difficulty, 1000)
        timed ==
            IF response_time <= 10 THEN TruncDiv(base * 12, 10)
            ELSE IF response_time >= 60 THEN TruncDiv(base * 8, 10)
            ELSE base
    IN  IF think_aloud_data # None
        THEN MulDiv(timed, 8000 + TruncDiv(
                 4 * _assess_reasoning_quality(think_aloud_data[1]), 10),
                 Scale)
        ELSE timed

\* an adjustment that rewards slow answers and penalises fast ones
adjustment_slow_boost(current_ability, question_difficulty, is_correct, response_time, think_aloud_data) ==
    LET base ==
            IF is_correct
            THEN TruncDiv((Scale - current_ability)
                            * (Scale - question_difficulty), 1000)
            ELSE - TruncDiv(current_ability * question_difficulty, 1000)
        timed ==
            IF response_time < 10 THEN TruncDiv(base * 8, 10)
            ELSE IF response_time > 60 THEN TruncDiv(base * 12, 10)
            ELSE base
    IN  IF think_aloud_data # None
        THEN MulDiv(timed, 8000 + TruncDiv(
                 4 * _assess_reasoning_quality(think_aloud_data[1]), 10),
                 Scale)
        ELSE timed

\* the local `adjustment` when the ability is updated, in units of 1/Fine
adjustment(current_ability, question_difficulty, is_correct, response_time, think_aloud_data) ==
    LET base ==
            IF is_correct
            THEN TruncDiv((Scale - current_ability)
                            * (Scale - question_difficulty), 1000)
            ELSE - TruncDiv(current_ability * question_difficulty, 1000)
        timed ==
            IF response_time < 10 THEN TruncDiv(base * 12, 10)
            ELSE IF response_time > 60 THEN TruncDiv(base * 8, 10)
            ELSE base
    IN  IF think_aloud_data # None
        THEN MulDiv(timed, 8000 + TruncDiv(
                 4 * _assess_reasoning_quality(think_aloud_data[1]), 10),
                 Scale)
        ELSE timed

\* question_difficulties.get(question_id, 0.5)
difficulty_of(question_id) ==
    IF question_id \in DOMAIN question_difficulties
    THEN question_difficulties[question_id] ELSE 5000

\* update_ability_estimate without the max(0.0, min(1.0, ...)) of its last
\* assignment
update_ability_estimate_unclamped(session_id, question_id, is_correct, response_time, think_aloud_data) ==
    IF session_data[session_id] = 0 THEN 5000
    ELSE LET current_ability ==
                 heap[session_data[session_id]].current_ability_estimate
         IN  current_ability
             + TruncDiv(adjustment(current_ability, difficulty_of(question_id),
                                   is_correct, response_time, think_aloud_data),
                        100)

update_ability_estimate(session_id, question_id, is_correct, response_time, think_aloud_data) ==
    IF session_data[session_id] = 0 THEN 5000
    ELSE LET current_ability ==
                 heap[session_data[session_id]].current_ability_estimate
             new_ability ==
                 current_ability
                 + TruncDiv(adjustment(current_ability,
                                       difficulty_of(question_id), is_correct,
                                       response_time, think_aloud_data), 100)
         IN  Max2(0, Min2(Scale, new_ability))

(***************************************************************************)
(* AdaptiveEngine.record_ai_assistance: the heap after the call.           *)
(***************************************************************************)
\* record_ai_assistance that also lowers the ability estimate by 0.05
record_ai_assistance_penalized(session_id, assistance_type, question_id, help_content) ==
    IF session_data[session_id] # 0
    THEN [ heap EXCEPT
             ![session_data[session_id]].ai_help_usage =
                 Append(@, [ question_id |-> question_id,
                             assistance_type |-> assistance_type,
                             content |-> help_content ]),
             ![session_data[session_id]].current_ability_estimate =
                 Max2(0, @ - 500) ]
    ELSE heap

record_ai_assistance(session_id, assistance_type, question_id, help_content) ==
    IF session_data[session_id] # 0
    THEN [ heap EXCEPT ![session_data[session_id]].ai_help_usage =
             Append(@, [ question_id |-> question_id,
                         assistance_type |-> assistance_type,
                         content |-> help_content ]) ]
    ELSE heap

(***************************************************************************)
(* AdaptiveEngine._calculate_learning_trajectory and get_session_analytics *)
(* (the {} returned for an unknown session is None here).                  *)
(***************************************************************************)
RECURSIVE TrajectoryLoop(_, _, _)
TrajectoryLoop(responses, i, last_estimate) ==
    IF i > Len(responses) THEN << >>
    ELSE LET estimate ==
                 IF responses[i].is_correct
                 THEN Min2(Scale, last_estimate + 500)
                 ELSE Max2(0, last_estimate - 300)
         IN  << [ question_number |-> i,
                  ability_estimate |-> estimate,
                  question_difficulty |-> responses[i].question_difficulty,
                  is_correct |-> responses[i].is_correct ] >>
             \o TrajectoryLoop(responses, i + 1, estimate)

_calculate_learning_trajectory(session) ==
    TrajectoryLoop(session.responses, 1, 5000)

\* the sums np.mean divides
RECURSIVE SumResponseTimes(_)
SumResponseTimes(responses) ==
    IF responses = << >> THEN 0
    ELSE Head(responses).response_time + SumResponseTimes(Tail(responses))

RECURSIVE SumQualities(_)
SumQualities(think_aloud_responses) ==
    IF think_aloud_responses = << >> THEN 0
    ELSE _assess_reasoning_quality(Head(think_aloud_responses))
         + SumQualities(Tail(think_aloud_responses))

get_session_analytics(session_id) ==
    IF session_data[session_id] = 0 THEN None
    ELSE LET session == heap[session_data[session_id]]
             total_questions == Len(session.questions_asked)
             correct_answers ==
                 Cardinality({ i \in DOMAIN session.responses :
                                 session.responses[i].is_correct })
         IN  Some([ session_id |-> session_id,
               total_questions |-> total_questions,
               accuracy |->
                   IF total_questions > 0
                   THEN TruncDiv(correct_answers * Scale, total_questions)
                   ELSE 0,
               final_ability_estimate |-> session.current_ability_estimate,
               estimated_grade_level |->
                   determine_grade_level(session.current_ability_estimate),
               \* in units of 1/Scale of a percent
               ai_help_percentage |->
                   IF total_questions > 0
                   THEN TruncDiv(Len(session.ai_help_usage) * 100 * Scale,
                                 total_questions)
                   ELSE 0,
               \* in units of 1/Scale of a second
               average_response_time |->
                   IF session.responses # << >>
                   THEN TruncDiv(SumResponseTimes(session.responses) * Scale,
                                 Len(session.responses))
                   ELSE 0,
               think_aloud_quality |->
                   IF session.think_aloud_responses # << >>
                   THEN TruncDiv(SumQualities(session.think_aloud_responses),
                                 Len(session.think_aloud_responses))
                   ELSE 0,
               learning_trajectory |-> _calculate_learning_trajectory(session) ])

QuestionIds == 1 .. (Len(db_questions) + 1)

RECURSIVE TotalLen(_, _)
TotalLen(objects, field) ==
    IF objects = << >> THEN 0
    ELSE Len(Head(objects)[field]) + TotalLen(Tail(objects), field)

\* response records appended or about to be, over all sessions
TotalResponses ==
    TotalLen(heap, "responses")
    + Cardinality({ slot \in Slots : inflight[slot].op = "submit_answer" })

\* assistance events recorded or about to be, over all sessions
TotalHelp ==
    TotalLen(heap, "ai_help_usage")
    + Cardinality({ slot \in Slots : /\ inflight[slot].op = "submit_answer"
                                     /\ inflight[slot].pc = "await_question"
                                     /\ inflight[slot].ai_help_used })

CallsMade == Len(heap) + Len(db_questions) + TotalResponses + TotalHelp

(***************************************************************************)
(* The initial state: a fresh process and an empty question collection.    *)
(***************************************************************************)
Init ==
    /\ now = 0
    /\ db_questions = << >>
    /\ heap = << >>
    /\ session_data = [ sid \in SessionIds |-> 0 ]
    /\ question_difficulties = << >>
    /\ inflight = [ slot \in Slots |-> Idle ]
    /\ result = NoResult
    /\ history = [ sid \in SessionIds |-> NoHistory ]

Known(session_id) == session_data[session_id] # 0
Live(session_id) == heap[session_data[session_id]]

Response(op, session_id, status, known, body) ==
    [ op |-> op, sid |-> session_id, status |-> status, known |-> known,
      exhausted |-> FALSE, issued |-> FALSE, body |-> body ]

\* the clock reaches the next second
Tick ==
    /\ now < MaxTime
    /\ now' = now + 1
    /\ result' = NoResult
    /\ UNCHANGED << db_questions, heap, session_data, question_difficulties,
                    inflight, history >>

(***************************************************************************)
(* server.py create_question (POST /questions): insert_one of a Question   *)
(* with a fresh id.                                                        *)
(***************************************************************************)
CreateQuestion ==
    \E question_data \in { QuestionInputs[i] :
                              i \in DOMAIN QuestionInputs
                                      \cap { Len(db_questions) + 1 } } :
        /\ CallsMade < MaxCalls
        /\ LET question ==
                 [ id |-> Len(db_questions) + 1,
                   subject |-> question_data.subject,
                   complexity |-> question_data.complexity,
                   grade_level |-> question_data.grade_level,
                   requires_prior_knowledge |->
                       question_data.requires_prior_knowledge,
                   multi_step |-> question_data.multi_step,
                   abstract_reasoning |-> question_data.abstract_reasoning,
                   correct_answer |-> question_data.correct_answer ]
           IN  /\ db_questions' = Append(db_questions, question)
               /\ result' = Response("create_question", None, "ok", FALSE,
                                     Some([ id |-> question.id ]))
        /\ UNCHANGED << now, heap, session_data, question_difficulties,
                        inflight, history >>

(***************************************************************************)
(* AdaptiveEngine.start_adaptive_session: the AdaptiveSession constructed  *)
(* and stored under session_data[session_id], replacing what was there.    *)
(***************************************************************************)
start_adaptive_session(user_id, subject, initial_ability, session_type) ==
    [ session_id |-> << user_id, now >>,
      user_id |-> user_id,
      subject |-> subject,
      current_ability_estimate |->
          IF initial_ability = None
          THEN estimate_initial_ability(None, None)
          ELSE initial_ability[1],
      questions_asked |-> << >>,
      responses |-> << >>,
      ai_help_usage |-> << >>,
      think_aloud_responses |-> << >>,
      session_type |-> session_type ]

\* a direct call of the engine's StartSession with an initial ability hint
StartSession ==
    \E user_id \in Users, subject \in Subjects,
       initial_ability \in InitialAbilityHints :
        /\ CallsMade < MaxCalls
        /\ LET session == start_adaptive_session(user_id, subject,
                                                 initial_ability, "diagnostic")
           IN  /\ heap' = Append(heap, session)
               /\ session_data' =
                    [ session_data EXCEPT ![session.session_id] = Len(heap) + 1 ]
               /\ history' = [ history EXCEPT ![session.session_id] = NoHistory ]
               /\ result' = Response("start_session", session.session_id, "ok",
                                     TRUE, Some([ session_id |-> session.session_id ]))
        /\ UNCHANGED << now, db_questions, question_difficulties, inflight >>

(***************************************************************************)
(* server.py start_adaptive_assessment, from the return of its await of    *)
(* db.user_answers.find to its response.  current_user.level is 1 (a user  *)
(* needs 100 xp, ten correct answers, for level 2).                        *)
(***************************************************************************)
StartAssessment ==
    \E user_id \in Users, subject \in Subjects,
       assessment_config \in AssessmentInputs :
        /\ CallsMade < MaxCalls
        /\ LET target_grade_level == assessment_config.target_grade_level
               max_questions == assessment_config.max_questions
               \* the is_correct flags of the db.user_answers rows whose
               \* question_id matches the regex `subject`: a question_id is
               \* a uuid4 (hex digits and hyphens), which no subject of
               \* Subjects occurs in
               previous_answers == << >>
               level == 1
               correct_count ==
                   Cardinality({ i \in DOMAIN previous_answers :
                                   previous_answers[i] })
               initial_ability ==
                   IF previous_answers # << >>
                   THEN Max2(1000, Min2(9000,
                            TruncDiv(correct_count * Scale, Len(previous_answers))))
                   ELSE IF target_grade_level # None
                   THEN estimate_initial_ability(None, target_grade_level)
                   ELSE Min2(9000, (level - 1) * 1000 + 3000)
               session == start_adaptive_session(user_id, subject,
                             Some(initial_ability), "diagnostic")
           IN  /\ heap' = Append(heap, session)
               /\ session_data' =
                    [ session_data EXCEPT ![session.session_id] = Len(heap) + 1 ]
               /\ history' =
                    [ history EXCEPT ![session.session_id] =
                        [ NoHistory EXCEPT !.max_questions = Some(max_questions) ] ]
               /\ result' =
                    Response("start_assessment", session.session_id, "ok", TRUE,
                        Some([ session_id |-> session.session_id,
                               initial_ability_estimate |-> initial_ability,
                               estimated_grade_level |->
                                   determine_grade_level(initial_ability),
                               max_questions |-> max_questions ]))
        /\ UNCHANGED << now, db_questions, question_difficulties, inflight >>

(***************************************************************************)
(* server.py get_next_adaptive_question.                                   *)
(* First segment: the session lookup (HTTPException 404, which the         *)
(* handler's own `except Exception` turns into a 500) and the start of the *)
(* db.questions query for session.subject.                                 *)
(***************************************************************************)
CallNextQuestion ==
    \E session_id \in SessionIds :
        IF ~ Known(session_id)
        THEN /\ result' = Response("next_question", session_id, "error",
                                   FALSE, None)
             /\ UNCHANGED << now, db_questions, heap, session_data,
                             question_difficulties, inflight, history >>
        ELSE \E slot \in Slots :
                /\ FreeSlot(slot)
                /\ inflight' =
                     [ inflight EXCEPT ![slot] =
                         [ Idle EXCEPT !.op = "next_question",
                                       !.pc = "await_questions",
                                       !.sid = session_id,
                                       !.ref = session_data[session_id],
                                       !.subject = Live(session_id).subject ] ]
                /\ result' = NoResult
                /\ UNCHANGED << now, db_questions, heap, session_data,
                                question_difficulties, history >>

\* a cache that keeps only the entry of the last question issued
StoreDifficulty_last_only(question_id, difficulty) ==
    [ q \in { question_id } |-> difficulty ]

\* adaptive_engine.question_difficulties[question_id] = difficulty
StoreDifficulty(question_id, difficulty) ==
    [ q \in DOMAIN question_difficulties \cup { question_id } |->
        IF q = question_id THEN difficulty ELSE question_difficulties[q] ]

\* the questions the db.questions.find({"subject": subject}) cursor yields
QuestionsOf(subject) ==
    SelectSeq(db_questions, LAMBDA q : q.subject = subject)

(***************************************************************************)
(* Second segment: the query has returned; select, then either the         *)
(* session_complete response or the difficulty store, the append to the    *)
(* questions_asked of the session object the first segment looked up, and  *)
(* the question response.                                                  *)
(***************************************************************************)
ResumeNextQuestion ==
    \E slot \in Slots :
        /\ inflight[slot].op = "next_question"
        /\ LET request == inflight[slot]
               session == heap[request.ref]
               question_list == QuestionsOf(request.subject)
               next_question == select_next_question(request.sid, question_list)
               exhausted ==
                   \A i \in DOMAIN question_list :
                       question_list[i].id
                           \in Range(Live(request.sid).questions_asked)
           IN  IF next_question = None
               THEN /\ result' =
                         [ Response("next_question", request.sid, "ok", TRUE,
                              Some([ session_complete |-> TRUE,
                                     final_analytics |->
                                         get_session_analytics(request.sid) ]))
                           EXCEPT !.exhausted = exhausted ]
                    /\ history' = [ history EXCEPT ![request.sid].completed = TRUE ]
                    /\ UNCHANGED << heap, question_difficulties >>
               ELSE LET question_difficulty ==
                            calculate_question_difficulty(next_question[1])
                    IN  /\ question_difficulties' =
                             StoreDifficulty(next_question[1].id,
                                             question_difficulty)
                        /\ heap' = [ heap EXCEPT ![request.ref].questions_asked =
                                       Append(@, next_question[1].id) ]
                        /\ result' =
                             [ Response("next_question", request.sid, "ok", TRUE,
                                  Some([ session_complete |-> FALSE,
                                    id |-> next_question[1].id,
                                    current_ability_estimate |->
                                        session.current_ability_estimate,
                                    question_number |->
                                        Len(session.questions_asked) + 1,
                                    estimated_difficulty |-> question_difficulty ]))
                               EXCEPT !.exhausted = exhausted ]
                        /\ history' = [ history EXCEPT ![request.sid].returned =
                                          Append(@, next_question[1].id) ]
        /\ inflight' = [ inflight EXCEPT ![slot] = Idle ]
        /\ UNCHANGED << now, db_questions, session_data >>

(***************************************************************************)
(* server.py submit_adaptive_answer.                                       *)
(* First segment: the request body is read and db.questions.find_one is    *)
(* awaited.  The guard keeps the run within MaxCalls.                      *)
(***************************************************************************)
CallSubmitAnswer ==
    \E session_id \in SessionIds, question_id \in QuestionIds,
       answer_data \in SubmissionInputs, slot \in Slots :
        /\ FreeSlot(slot)
        /\ CallsMade + (IF answer_data.ai_help_used THEN 1 ELSE 0) < MaxCalls
        /\ inflight' =
             [ inflight EXCEPT ![slot] =
                 [ Idle EXCEPT !.op = "submit_answer",
                               !.pc = "await_question",
                               !.sid = session_id,
                               !.qid = question_id,
                               !.answer = answer_data.answer,
                               !.response_time =
                                   answer_data.response_time_seconds,
                               !.think_aloud_data = answer_data.think_aloud_data,
                               !.ai_help_used = answer_data.ai_help_used,
                               !.ai_help_details =
                                   answer_data.ai_help_details ] ]
        /\ result' = NoResult
        /\ UNCHANGED << now, db_questions, heap, session_data,
                        question_difficulties, history >>

(***************************************************************************)
(* Second segment: find_one has returned.  Question and session lookups    *)
(* (404, turned into 500), record_ai_assistance, update_ability_estimate,  *)
(* then the await of db.user_answers.insert_one.                           *)
(***************************************************************************)
ResumeSubmitAnswer ==
    \E slot \in Slots :
        /\ inflight[slot].op = "submit_answer"
        /\ inflight[slot].pc = "await_question"
        /\ LET request == inflight[slot]
               found == request.qid \in 1 .. Len(db_questions)
               issued ==
                   /\ Known(request.sid)
                   /\ request.qid \in Range(Live(request.sid).questions_asked)
           IN  IF ~ found \/ ~ Known(request.sid)
               THEN /\ result' =
                         [ Response("submit_answer", request.sid, "error",
                                    Known(request.sid), None)
                           EXCEPT !.issued = issued ]
                    /\ inflight' = [ inflight EXCEPT ![slot] = Idle ]
                    /\ UNCHANGED heap
               ELSE LET question == db_questions[request.qid]
                        is_correct == request.answer = question.correct_answer
                        helped ==
                            IF request.ai_help_used
                               /\ request.ai_help_details # None
                            THEN record_ai_assistance(request.sid,
                                     request.ai_help_details[1].type,
                                     request.qid,
                                     request.ai_help_details[1].content)
                            ELSE heap
                        ability_after ==
                            update_ability_estimate(request.sid, request.qid,
                                is_correct, request.response_time,
                                request.think_aloud_data)
                    IN  /\ heap' =
                             [ helped EXCEPT
                                 ![session_data[request.sid]]
                                     .current_ability_estimate = ability_after ]
                        /\ inflight' =
                             [ inflight EXCEPT ![slot] =
                                 [ request EXCEPT
                                     !.pc = "await_insert",
                                     !.ref = session_data[request.sid],
                                     !.is_correct = is_correct,
                                     !.ability_before =
                                         Live(request.sid).current_ability_estimate,
                                     !.ability_after = ability_after ] ]
                        /\ result' = NoResult
        /\ UNCHANGED << now, db_questions, session_data, question_difficulties,
                        history >>

(***************************************************************************)
(* Third segment: insert_one has returned.  The response record and the    *)
(* think-aloud data are appended to the session object looked up in the    *)
(* second segment, and the response is built.  (The await of               *)
(* db.users.update_one that follows for a correct answer only delays the   *)
(* response.)                                                              *)
(***************************************************************************)
FinishSubmitAnswer ==
    \E slot \in Slots :
        /\ inflight[slot].op = "submit_answer"
        /\ inflight[slot].pc = "await_insert"
        /\ LET request == inflight[slot]
               session == heap[request.ref]
               record ==
                   [ question_id |-> request.qid,
                     is_correct |-> request.is_correct,
                     response_time |-> request.response_time,
                     question_difficulty |-> difficulty_of(request.qid) ]
           IN  /\ heap' =
                    [ heap EXCEPT
                        ![request.ref].responses = Append(@, record),
                        ![request.ref].think_aloud_responses =
                            IF request.think_aloud_data # None
                            THEN Append(@, request.think_aloud_data[1]) ELSE @ ]
               /\ result' =
                    [ Response("submit_answer", request.sid, "ok", TRUE,
                        Some([ correct |-> request.is_correct,
                          ability_estimate_change |->
                              request.ability_after - request.ability_before,
                          new_ability_estimate |-> request.ability_after,
                          estimated_grade_level |->
                              determine_grade_level(request.ability_after),
                          questions_completed |-> Len(session.responses) + 1 ]))
                      EXCEPT !.issued =
                          request.qid \in Range(session.questions_asked) ]
        /\ inflight' = [ inflight EXCEPT ![slot] = Idle ]
        /\ UNCHANGED << now, db_questions, session_data, question_difficulties,
                        history >>

(***************************************************************************)
(* RecordAssistance: a direct call of AdaptiveEngine.record_ai_assistance, *)
(* which returns None whether or not the session exists.                   *)
(***************************************************************************)
RecordAssistance ==
    \E session_id \in SessionIds, question_id \in QuestionIds :
        /\ CallsMade < MaxCalls
        /\ heap' = record_ai_assistance(session_id, "hint", question_id, "c")
        /\ result' = Response("record_assistance", session_id, "ok",
                              Known(session_id), None)
        /\ UNCHANGED << now, db_questions, session_data, question_difficulties,
                        inflight, history >>

\* an analytics call that empties the assistance log it has reported
GetAnalytics_consuming ==
    \E session_id \in SessionIds :
        /\ result' =
             IF get_session_analytics(session_id) = None
             THEN Response("get_analytics", session_id, "error", FALSE, None)
             ELSE Response("get_analytics", session_id, "ok", TRUE,
                           get_session_analytics(session_id))
        /\ heap' = IF Known(session_id)
                   THEN [ heap EXCEPT ![session_data[session_id]].ai_help_usage = << >> ]
                   ELSE heap
        /\ UNCHANGED << now, db_questions, session_data,
                        question_difficulties, inflight, history >>

(***************************************************************************)
(* server.py get_adaptive_session_analytics: no await; {} from the engine  *)
(* is the 404 that becomes a 500.                                          *)
(***************************************************************************)
GetAnalytics ==
    \E session_id \in SessionIds :
        /\ result' =
             IF get_session_analytics(session_id) = None
             THEN Response("get_analytics", session_id, "error", FALSE, None)
             ELSE Response("get_analytics", session_id, "ok", TRUE,
                           get_session_analytics(session_id))
        /\ UNCHANGED << now, db_questions, heap, session_data,
                        question_difficulties, inflight, history >>

Next ==
    \/ Tick
    \/ CreateQuestion
    \/ StartSession
    \/ StartAssessment
    \/ CallNextQuestion
    \/ ResumeNextQuestion
    \/ CallSubmitAnswer
    \/ ResumeSubmitAnswer
    \/ FinishSubmitAnswer
    \/ RecordAssistance
    \/ GetAnalytics

Spec == Init /\ [][Next]_vars

(***************************************************************************)
(* Direct calls of the engine's methods.  A run is one call on a session   *)
(* that was started with some initial ability and has been issued some     *)
(* questions, whose difficulties are cached.                               *)
(***************************************************************************)
\* questions in a pool passed to select_next_question
MaxPool == 3

EngineSession == << "u1", 0 >>

\* initial_ability arguments of start_adaptive_session: 23.0 is the first
\* of them at which prob * (1 - prob) is 0.0 for every difficulty in [0,1]
EngineAbilities == { 0, 3000, 4750, 5000, 10000, 15000, 230000 }

\* the questions_asked lists of the session
EngineAsked == { << >>, << 1 >>, << 2, 1 >> }

\* question dicts, without their id
DescriptorKinds ==
    << [ complexity |-> "application", grade_level |-> "grade_8",
         requires_prior_knowledge |-> FALSE, multi_step |-> FALSE,
         abstract_reasoning |-> FALSE ],
       [ complexity |-> "basic", grade_level |-> "grade_3",
         requires_prior_knowledge |-> FALSE, multi_step |-> FALSE,
         abstract_reasoning |-> FALSE ],
       [ complexity |-> "analysis", grade_level |-> "undergraduate",
         requires_prior_knowledge |-> FALSE, multi_step |-> FALSE,
         abstract_reasoning |-> TRUE ] >>

\* available_questions arguments: the i-th question of a pool has id i
EnginePools ==
    UNION { { [ i \in 1 .. n |-> ("id" :> i) @@ DescriptorKinds[kinds[i]] ] :
                kinds \in [ 1 .. n -> DOMAIN DescriptorKinds ] } :
            n \in 0 .. MaxPool }

\* user_age and grade_level arguments of estimate_initial_ability
AgeInputs == { None } \cup { Some(age) : age \in { 0, 5, 6, 7, 12, 18, 19,
                                                    22, 23, 26, 27 } }
GradeInputs == { None } \cup { Some(grade_level) : grade_level \in GradeLevel }

\* question_data arguments of calculate_question_difficulty: every
\* complexity and grade level, one of neither table, and the key missing
NoKeys == [ key \in {} |-> FALSE ]
DescriptorInputs ==
    { (IF complexity = None THEN NoKeys ELSE "complexity" :> complexity[1])
      @@ (IF grade_level = None THEN NoKeys ELSE "grade_level" :> grade_level[1])
      @@ [ requires_prior_knowledge |-> flags[1], multi_step |-> flags[2],
           abstract_reasoning |-> flags[3] ] :
        complexity \in { None } \cup
            { Some(c) : c \in { "basic", "comprehension", "application",
                                "analysis", "synthesis", "evaluation",
                                "research", "unknown" } },
        grade_level \in GradeInputs \cup { Some("grade_99") },
        flags \in BOOLEAN \X BOOLEAN \X BOOLEAN }

\* ability_score arguments of determine_grade_level: around every multiple
\* of 0.005 from -0.05 to 1.05
ScoreInputs == { score \in (-500) .. (Scale + 500) : score % 50 \in { 0, 1, 49 } }

\* think_aloud_data arguments
ThinkAloudInputs ==
    { None, Some([ reasoning |-> "Because" ]), Some([ reasoning |-> "" ]) }

\* response_time arguments, in seconds
ResponseTimeInputs == { 5, 10, 60, 90 }

EngineInit ==
    \E initial_ability \in EngineAbilities, asked \in EngineAsked,
       kind \in DOMAIN DescriptorKinds :
        /\ now = 0
        /\ db_questions = << >>
        /\ heap = << [ start_adaptive_session("u1", "mathematics",
                           Some(initial_ability), "diagnostic")
                       EXCEPT !.questions_asked = asked ] >>
        /\ session_data =
             [ sid \in SessionIds |-> IF sid = EngineSession THEN 1 ELSE 0 ]
        /\ question_difficulties =
             [ q \in Range(asked) |->
                 calculate_question_difficulty(DescriptorKinds[kind]) ]
        /\ inflight = [ slot \in Slots |-> Idle ]
        /\ result = NoResult
        /\ history = [ sid \in SessionIds |->
                         IF sid = EngineSession
                         THEN [ NoHistory EXCEPT !.returned = asked ]
                         ELSE NoHistory ]

EstimateInitialAbility ==
    \E user_age \in AgeInputs, grade_level \in GradeInputs :
        /\ result = NoResult
        /\ result' = Response("estimate_initial_ability", None, "ok", FALSE,
                        Some([ user_age |-> user_age,
                               grade_level |-> grade_level,
                               value |-> estimate_initial_ability(user_age,
                                                                  grade_level) ]))
        /\ UNCHANGED << now, db_questions, heap, session_data,
                        question_difficulties, inflight, history >>

CalculateQuestionDifficulty ==
    \E question_data \in DescriptorInputs :
        /\ result = NoResult
        /\ result' = Response("calculate_question_difficulty", None, "ok", FALSE,
                        Some([ question_data |-> question_data,
                               value |->
                                   calculate_question_difficulty(question_data) ]))
        /\ UNCHANGED << now, db_questions, heap, session_data,
                        question_difficulties, inflight, history >>

DetermineGradeLevel ==
    \E ability_score \in ScoreInputs :
        /\ result = NoResult
        /\ result' = Response("determine_grade_level", None, "ok", FALSE,
                        Some([ ability_score |-> ability_score,
                               value |-> determine_grade_level(ability_score) ]))
        /\ UNCHANGED << now, db_questions, heap, session_data,
                        question_difficulties, inflight, history >>

SelectNextQuestion ==
    \E available_questions \in EnginePools :
        /\ result = NoResult
        /\ result' = Response("select_next_question", EngineSession, "ok", TRUE,
                        Some([ available_questions |-> available_questions,
                               value |->
                                   select_next_question(EngineSession,
                                                        available_questions) ]))
        /\ UNCHANGED << now, db_questions, heap, session_data,
                        question_difficulties, inflight, history >>

\* update_ability_estimate stores the value it returns in the session
UpdateAbilityEstimate ==
    \E question_id \in 1 .. MaxPool, is_correct \in BOOLEAN,
       response_time \in ResponseTimeInputs,
       think_aloud_data \in ThinkAloudInputs :
        LET new_ability ==
                update_ability_estimate(EngineSession, question_id, is_correct,
                                        response_time, think_aloud_data)
        IN  /\ result = NoResult
            /\ heap' = [ heap EXCEPT ![session_data[EngineSession]]
                                         .current_ability_estimate = new_ability ]
            /\ result' = Response("update_ability_estimate", EngineSession,
                            "ok", TRUE,
                            Some([ ability |->
                                       Live(EngineSession).current_ability_estimate,
                                   question_difficulty |->
                                       difficulty_of(question_id),
                                   is_correct |-> is_correct,
                                   response_time |-> response_time,
                                   think_aloud_data |-> think_aloud_data,
                                   value |-> new_ability ]))
            /\ UNCHANGED << now, db_questions, session_data,
                            question_difficulties, inflight, history >>

\* think_aloud_data arguments of _assess_reasoning_quality: a text under
\* `reasoning`, or a dict without that key
ReasoningInputs ==
    { [ reasoning |-> text ] : text \in TextInputs } \cup { [ strategy |-> "guess" ] }

AssessReasoningQuality ==
    \E think_aloud_data \in ReasoningInputs :
        /\ result = NoResult
        /\ result' = Response("_assess_reasoning_quality", None, "ok", FALSE,
                        Some([ think_aloud_data |-> think_aloud_data,
                               value |-> _assess_reasoning_quality(think_aloud_data) ]))
        /\ UNCHANGED << now, db_questions, heap, session_data,
                        question_difficulties, inflight, history >>

EngineNext ==
    \/ AssessReasoningQuality
    \/ EstimateInitialAbility
    \/ CalculateQuestionDifficulty
    \/ DetermineGradeLevel
    \/ SelectNextQuestion
    \/ UpdateAbilityEstimate

EngineSpec == EngineInit /\ [][EngineNext]_vars

(***************************************************************************)
(* Properties.                                                             *)
(***************************************************************************)
Abilities == 0 .. Scale

NoDuplicates(list) ==
    \A i, j \in DOMAIN list : i # j => list[i] # list[j]

Mutating == { "next_question", "submit_answer", "record_assistance" }

\* the step is a step of a call made on session_id: a handler of a request
\* for it starts, resumes or finishes, or a call without await returns
ActsOn(session_id) ==
    \/ \E slot \in Slots :
          /\ inflight'[slot] # inflight[slot]
          /\ session_id \in { inflight[slot].sid, inflight'[slot].sid }
    \/ /\ inflight' = inflight
       /\ result'.sid = session_id

\* C1: the ability every successful SubmitAnswer returns is in [0,1].
C1_ReturnedAbilityInRange ==
    (result.op = "submit_answer" /\ result.status = "ok")
        => result.body[1].new_ability_estimate \in Abilities

\* the second SubmitAnswer of a session started above 1 returns exactly 1
C1_SecondAnswerAtUpperBound ==
    /\ result.op = "submit_answer"
    /\ result.status = "ok"
    /\ result.body[1].questions_completed = 2
    /\ result.body[1].new_ability_estimate = Scale

\* C2: the current ability estimate of every session is in [0,1] in every
\* reachable state, the state right after StartSession included.
C2_SessionAbilityClamped ==
    \A i \in DOMAIN heap : heap[i].current_ability_estimate \in Abilities

\* C3: the asked-question list of a session has one entry per question its
\* NextQuestion calls returned, without duplicates, and no call returns a
\* question a previous call on the session returned.
C3_AskedListMatchesReturned ==
    \A session_id \in SessionIds :
        Known(session_id) =>
            /\ Len(Live(session_id).questions_asked)
                 = Len(history[session_id].returned)
            /\ NoDuplicates(Live(session_id).questions_asked)
            /\ NoDuplicates(history[session_id].returned)

\* C4: a SubmitAnswer naming a question that NextQuestion never issued to
\* the session is rejected.
C4_UnissuedQuestionRejected ==
    (result.op = "submit_answer" /\ ~ result.issued)
        => result.status = "error"

\* C5: a call naming a session id that no StartSession created returns an
\* error, and changes no session.
C5_UnknownSessionIsError ==
    [][ \A session_id \in SessionIds :
          ( /\ result' # result
            /\ result'.op \in Mutating \cup { "get_analytics" }
            /\ result'.sid = session_id
            /\ ~ result'.known )
          => /\ result'.status = "error"
             /\ heap' = heap
             /\ session_data' = session_data ]_vars

\* C6: when every question of the pool is in the session's asked list,
\* NextQuestion answers sessionComplete: no error, no question.
C6_ExhaustedPoolCompletes ==
    (result.op = "next_question" /\ result.exhausted)
        => /\ result.status = "ok"
           /\ result.body[1].session_complete

\* the third NextQuestion of a session, over a pool of two questions
C6_ThirdCallOfTwoCompletes ==
    /\ result.op = "next_question"
    /\ result.exhausted
    /\ result.body[1].session_complete
    /\ Len(QuestionsOf(Live(result.sid).subject)) = 2
    /\ Len(Live(result.sid).questions_asked) = 2

\* C7: once NextQuestion has answered sessionComplete for a session, no
\* call returns a question for it and none changes its ability estimate,
\* asked list, response log or assistance log.
C7_CompleteIsTerminal ==
    [][ \A session_id \in SessionIds :
          ( /\ Known(session_id)
            /\ history[session_id].completed
            /\ session_data'[session_id] = session_data[session_id] )
          => /\ heap'[session_data[session_id]] = heap[session_data[session_id]]
             /\ ~ ( /\ result' # result
                    /\ result'.op = "next_question"
                    /\ result'.sid = session_id
                    /\ result'.status = "ok"
                    /\ ~ result'.body[1].session_complete ) ]_vars

\* C8: NextQuestion issues at most max_questions questions to a session
\* started with that maximum.
C8_MaxQuestionsRespected ==
    \A session_id \in SessionIds :
        history[session_id].max_questions # None
            => Len(history[session_id].returned)
                 <= history[session_id].max_questions[1]

C10_MutationsSerialized ==
    \A slot \in Slots :
        inflight[slot].pc = "await_insert"
            => /\ ~ ( /\ result.op \in Mutating
                      /\ result.status = "ok"
                      /\ result.sid = inflight[slot].sid )
               /\ \A other \in Slots \ { slot } :
                     inflight[other].sid # inflight[slot].sid

IsPrefix(before, after) ==
    /\ Len(before) <= Len(after)
    /\ SubSeq(after, 1, Len(before)) = before

InRange(grade_level, ability) ==
    /\ grade_level_mapping[grade_level][1] <= ability
    /\ ability <= grade_level_mapping[grade_level][2]

\* C11: for an ability and a difficulty in [0,1], whatever the latency and
\* the reasoning, a correct answer never lowers the ability and an
\* incorrect answer never raises it.
C11_DirectionFollowsCorrectness ==
    ( /\ result.op = "update_ability_estimate"
      /\ result.body[1].ability \in Abilities
      /\ result.body[1].question_difficulty \in Abilities )
    => IF result.body[1].is_correct
       THEN result.body[1].value >= result.body[1].ability
       ELSE result.body[1].value <= result.body[1].ability

\* an incorrect answer with think-aloud data has lowered an ability of [0,1]
C11_IncorrectAnswerLowered ==
    /\ result.op = "update_ability_estimate"
    /\ result.body[1].ability \in Abilities
    /\ ~ result.body[1].is_correct
    /\ result.body[1].think_aloud_data # None
    /\ result.body[1].value < result.body[1].ability

\* C12: RecordAssistance on an existing session appends exactly one event
\* to its assistance log and leaves its ability estimate, asked list and
\* response log as they were.
C12_RecordAssistanceFrame ==
    [][ \A session_id \in SessionIds :
          ( /\ result'.op = "record_assistance"
            /\ result'.sid = session_id
            /\ Known(session_id) )
          => LET before == Live(session_id)
                 after == heap'[session_data[session_id]]
             IN  /\ Len(after.ai_help_usage) = Len(before.ai_help_usage) + 1
                 /\ IsPrefix(before.ai_help_usage, after.ai_help_usage)
                 /\ after.current_ability_estimate
                      = before.current_ability_estimate
                 /\ after.questions_asked = before.questions_asked
                 /\ after.responses = before.responses ]_vars

\* RecordAssistance has returned on a session that has a response record
C12_AssistanceAfterAnAnswer ==
    /\ result.op = "record_assistance"
    /\ result.known
    /\ Live(result.sid).responses # << >>
    /\ Live(result.sid).ai_help_usage # << >>

\* C13: the response log of a session never gets shorter and the records
\* in it never change.
C13_ResponseLogAppendOnly ==
    [][ \A session_id \in SessionIds :
          Known(session_id)
          => IsPrefix(Live(session_id).responses,
                      heap'[session_data'[session_id]].responses) ]_vars

\* C14: determine_grade_level maps every ability of [0,1], both ends
\* included, to a grade level whose range contains it.
C14_GradeLevelContainsAbility ==
    ( /\ result.op = "determine_grade_level"
      /\ result.body[1].ability_score \in Abilities )
    => /\ result.body[1].value \in GradeLevel
       /\ InRange(result.body[1].value, result.body[1].ability_score)

\* the ability 1.0 is resolved to the last bucket of the scale
C14_UpperBoundResolved ==
    /\ result.op = "determine_grade_level"
    /\ result.body[1].ability_score = Scale
    /\ result.body[1].value = "postdoctoral"

\* C15: the ranges of the grade levels, in order, are contiguous and
\* increasing, and every ability of [0,1] is in the range of exactly one
\* grade level.
C15_ExactlyOneGradeLevel ==
    ( /\ result.op = "determine_grade_level"
      /\ result.body[1].ability_score \in Abilities )
    => /\ \A i \in 1 .. (Len(GradeOrder) - 1) :
             /\ grade_level_mapping[GradeOrder[i]][1]
                  < grade_level_mapping[GradeOrder[i]][2]
             /\ grade_level_mapping[GradeOrder[i]][2]
                  = grade_level_mapping[GradeOrder[i + 1]][1]
       /\ Cardinality({ grade_level \in GradeLevel :
                          InRange(grade_level, result.body[1].ability_score) })
            = 1

\* C16: GetAnalytics on a session without response records reports
\* accuracy 0, assistance percentage 0, mean latency 0, mean reasoning
\* quality 0 and an empty trajectory.
C16_EmptyLogReportsZero ==
    ( /\ result.op = "get_analytics"
      /\ result.known
      /\ Live(result.sid).responses = << >> )
    => /\ result.status = "ok"
       /\ result.body[1].accuracy = 0
       /\ result.body[1].ai_help_percentage = 0
       /\ result.body[1].average_response_time = 0
       /\ result.body[1].think_aloud_quality = 0
       /\ result.body[1].learning_trajectory = << >>

\* C17: a complexity outside the table is scored as application, and a
\* grade level outside the table gives the difficulty of the same
\* descriptor without a grade level.
C17_MalformedDescriptorDefaults ==
    result.op = "calculate_question_difficulty"
    => LET question_data == result.body[1].question_data
           keys == DOMAIN question_data
       IN  /\ ( /\ "complexity" \in keys
                /\ question_data.complexity = "unknown" )
               => result.body[1].value =
                    calculate_question_difficulty(
                        [ question_data EXCEPT !.complexity = "application" ])
           /\ ( /\ "grade_level" \in keys
                /\ question_data.grade_level \notin GradeLevel )
               => result.body[1].value =
                    calculate_question_difficulty(
                        [ key \in keys \ { "grade_level" } |->
                            question_data[key] ])

\* C18: with a grade level, estimate_initial_ability returns the midpoint
\* of its range whatever the age; with neither, 0.5.
C18_InitialAbilityIsMidpoint ==
    result.op = "estimate_initial_ability"
    => LET grade_level == result.body[1].grade_level
       IN  /\ grade_level # None
               => 2 * result.body[1].value =
                    grade_level_mapping[grade_level[1]][1]
                    + grade_level_mapping[grade_level[1]][2]
           /\ (grade_level = None /\ result.body[1].user_age = None)
               => 2 * result.body[1].value = Scale

\* grade_8 with an age of 27 gives 0.475
C18_GradeEightWithAge ==
    /\ result.op = "estimate_initial_ability"
    /\ result.body[1].grade_level = Some("grade_8")
    /\ result.body[1].user_age = Some(27)
    /\ result.body[1].value = 4750

\* C19: select_next_question returns the first question of the pool, among
\* those not asked, whose information no other of them exceeds.
C19_FirstOfMaximalInformation ==
    result.op = "select_next_question"
    => LET pool == result.body[1].available_questions
           session == Live(result.sid)
           information(i) ==
               _calculate_information(session.current_ability_estimate,
                   calculate_question_difficulty(pool[i]))
           candidates == { i \in DOMAIN pool :
                             pool[i].id \notin Range(session.questions_asked) }
       IN  IF candidates = {}
           THEN result.body[1].value = None
           ELSE /\ result.body[1].value # None
                /\ \E i \in candidates :
                      /\ result.body[1].value[1] = pool[i]
                      /\ \A j \in candidates :
                            ~ InfoGreater(information(j), information(i))
                      /\ \A j \in candidates :
                            j < i => InfoGreater(information(i), information(j))

\* C20: for a complexity and a grade level of the tables, the difficulty is
\* clamp(gradeMin + base * (gradeMax - gradeMin) + 0.10, 0.10 and 0.15 for
\* the flags set, 0, 1), here times Scale.
C20_DifficultyFormula ==
    ( /\ result.op = "calculate_question_difficulty"
      /\ "complexity" \in DOMAIN result.body[1].question_data
      /\ result.body[1].question_data.complexity # "unknown"
      /\ "grade_level" \in DOMAIN result.body[1].question_data
      /\ result.body[1].question_data.grade_level \in GradeLevel )
    => LET question_data == result.body[1].question_data
           range == grade_level_mapping[question_data.grade_level]
           expected ==
               Scale * range[1]
               + base_difficulty(question_data.complexity) * (range[2] - range[1])
               + (IF question_data.requires_prior_knowledge THEN Scale * 1000 ELSE 0)
               + (IF question_data.multi_step THEN Scale * 1000 ELSE 0)
               + (IF question_data.abstract_reasoning THEN Scale * 1500 ELSE 0)
       IN  /\ Scale * result.body[1].value = Max2(0, Min2(Scale * Scale, expected))
           /\ result.body[1].value \in Abilities

\* application, grade_8 and no flag give 0.475
C20_ApplicationGradeEight ==
    /\ result.op = "calculate_question_difficulty"
    /\ result.body[1].question_data =
         [ complexity |-> "application", grade_level |-> "grade_8",
           requires_prior_knowledge |-> FALSE, multi_step |-> FALSE,
           abstract_reasoning |-> FALSE ]
    /\ result.body[1].value = 4750

\* The delta of the ability-update rule as the specification words it, in
\* units of 1/Fine: 0.1*(1-ability)*(1-difficulty) or -0.1*ability*difficulty,
\* times 1.2 below 10 s and 0.8 above 60 s, times 0.8 + 0.4*q when a
\* reasoning-quality score q (None when absent) is supplied.
ClaimedDelta(ability, difficulty, is_correct, latency, q) ==
    LET product == IF is_correct THEN (Scale - ability) * (Scale - difficulty) ELSE - (ability * difficulty)
        tenths == IF latency < 10 THEN 12 ELSE IF latency > 60 THEN 8 ELSE 10
        modifier == IF q = None THEN Scale ELSE 8000 + (4 * q[1]) \div 10
    IN  MulDiv(TruncDiv(product, 1000) * tenths, modifier, 10 * Scale)

\* C21: update_ability_estimate returns clamp(ability + delta, 0, 1) with
\* the delta of the rule (sign by correctness, 1.2 below 10 s, 0.8 above
\* 60 s, unchanged from 10 to 60 s inclusive, 0.8 + 0.4*q with reasoning),
\* to within one grid step of 0.0001.
C21_UpdateFollowsFormula ==
    result.op = "update_ability_estimate"
    => LET call == result.body[1]
           q == IF call.think_aloud_data = None THEN None ELSE Some(_assess_reasoning_quality(call.think_aloud_data[1]))
           delta == ClaimedDelta(call.ability, call.question_difficulty, call.is_correct, call.response_time, q)
           clamped == Max2(0, Min2(Fine, 100 * call.ability + delta))
       IN  /\ 100 * call.value - clamped <= 100
           /\ clamped - 100 * call.value <= 100

\* the worked example: ability 0.5, difficulty 0.475, correct, 5 s, no
\* reasoning, new ability 0.5315
C21_WorkedExample ==
    /\ result.op = "update_ability_estimate"
    /\ result.body[1].ability = 5000
    /\ result.body[1].question_difficulty = 4750
    /\ result.body[1].is_correct
    /\ result.body[1].response_time = 5
    /\ result.body[1].think_aloud_data = None
    /\ result.body[1].value = 5315

\* the latency class of a response time: 2 below 10 s, 1 from 10 to 60 s,
\* 0 above 60 s
LatencyClass(response_time) ==
    IF response_time < 10 THEN 2 ELSE IF response_time > 60 THEN 0 ELSE 1

\* think-aloud data `higher` carries a reasoning-quality score at least that
\* of `lower` (both absent, or both supplied)
QualityAtLeast(higher, lower) ==
    \/ higher = None /\ lower = None
    \/ /\ higher # None
       /\ lower # None
       /\ _assess_reasoning_quality(higher[1]) >= _assess_reasoning_quality(lower[1])

\* C22: with the ability, difficulty and correctness of an update held
\* fixed, no latency and no reasoning gives a delta of the sign opposite to
\* the unmodified one, and for a correct answer a call of a faster-or-equal
\* latency class and a higher-or-equal reasoning quality never has a smaller
\* positive delta than the update made.
C22_ModifiersMonotone ==
    result.op = "update_ability_estimate"
    => LET call == result.body[1]
           Delta(response_time, think_aloud_data) == adjustment(call.ability, call.question_difficulty, call.is_correct, response_time, think_aloud_data)
           unmodified == Delta(10, None)
           made == Delta(call.response_time, call.think_aloud_data)
       IN  /\ unmodified > 0 => made >= 0
           /\ unmodified < 0 => made <= 0
           /\ unmodified = 0 => made = 0
           /\ \A response_time \in ResponseTimeInputs, think_aloud_data \in ThinkAloudInputs :
                ( /\ call.is_correct
                  /\ unmodified > 0
                  /\ LatencyClass(response_time) >= LatencyClass(call.response_time)
                  /\ QualityAtLeast(think_aloud_data, call.think_aloud_data) )
                => Delta(response_time, think_aloud_data) >= made

\* a slow correct answer with an empty reasoning has raised an ability of
\* [0,1] by less than the fast answer with a keyword would have
C22_SlowUnreasonedGainsLess ==
    /\ result.op = "update_ability_estimate"
    /\ result.body[1].ability \in Abilities
    /\ result.body[1].is_correct
    /\ result.body[1].response_time = 90
    /\ result.body[1].think_aloud_data = Some([ reasoning |-> "" ])
    /\ result.body[1].value > result.body[1].ability
    /\ adjustment(result.body[1].ability, result.body[1].question_difficulty, TRUE, 5, Some([ reasoning |-> "Because" ]))
         > adjustment(result.body[1].ability, result.body[1].question_difficulty, TRUE, 90, Some([ reasoning |-> "" ]))

\* C23: the reasoning-quality score of a text is
\* min(1, 0.1*k + 0.2*[length > 50] + 0.2*[length > 100]), with k the number
\* of distinct keywords of the list found in the text (letter case
\* ignored); it is in [0,1], and 0 for the empty text.
C23_QualityScoreFormula ==
    result.op = "_assess_reasoning_quality"
    => LET text == Lower(Characters[Get(result.body[1].think_aloud_data, "reasoning", "")])
           k == Cardinality({ keyword \in Range(indicators) : IsSubstring(keyword, text) })
           length_bonus == (IF Len(text) > 50 THEN 2000 ELSE 0) + (IF Len(text) > 100 THEN 2000 ELSE 0)
       IN  /\ result.body[1].value = Min2(Scale, 1000 * k + length_bonus)
           /\ result.body[1].value \in 0 .. Scale
           /\ text = << >> => result.body[1].value = 0

\* a text of more than 100 characters with eight keywords has scored 1
C23_LongTextScoresOne ==
    /\ result.op = "_assess_reasoning_quality"
    /\ "reasoning" \in DOMAIN result.body[1].think_aloud_data
    /\ Len(Characters[result.body[1].think_aloud_data.reasoning]) = 127
    /\ Cardinality({ keyword \in Range(indicators) : IsSubstring(keyword, Lower(Characters[result.body[1].think_aloud_data.reasoning])) }) = 8
    /\ result.body[1].value = Scale

\* C24: a step that starts a session gives it an identifier that no existing
\* session has, and leaves every existing session (ability, asked list,
\* responses, assistance log) reachable and unchanged under its identifier.
C24_StartNeverReplaces ==
    [][ ( /\ result'.op \in { "start_session", "start_assessment" }
          /\ Len(heap') = Len(heap) + 1 )
        => /\ ~ Known(result'.sid)
           /\ \A session_id \in SessionIds :
                Known(session_id)
                => heap'[session_data'[session_id]] = Live(session_id) ]_vars

\* C25: whatever the ability of the session, select_next_question returns a
\* question when the pool holds one whose id is not in the asked list, and
\* returns None (the completion signal) only when the pool holds none.
C25_QuestionWheneverUnasked ==
    result.op = "select_next_question"
    => LET unasked == { i \in DOMAIN result.body[1].available_questions :
                          result.body[1].available_questions[i].id
                            \notin Range(Live(result.sid).questions_asked) }
       IN  (result.body[1].value = None) <=> (unasked = {})

\* C26: in every session no two records of the response log are about the
\* same question, and the log has no more records than the asked list.
C26_OneResponsePerQuestion ==
    \A session_id \in SessionIds :
        Known(session_id)
        => LET session == Live(session_id)
           IN  /\ \A i, j \in DOMAIN session.responses :
                     session.responses[i].question_id = session.responses[j].question_id => i = j
               /\ Len(session.responses) <= Len(session.questions_asked)

\* C27: the accuracy reported by get_session_analytics is in [0,1].
C27_AccuracyInUnitInterval ==
    ( /\ result.op = "get_analytics"
      /\ result.status = "ok" )
    => result.body[1].accuracy \in 0 .. Scale

\* C28: the assistance percentage reported by get_session_analytics is in
\* [0,100] (here in units of 1/Scale of a percent).
C28_AssistancePercentageInRange ==
    ( /\ result.op = "get_analytics"
      /\ result.status = "ok" )
    => result.body[1].ai_help_percentage \in 0 .. (100 * Scale)

\* C29: for every grade level g of the table, determine_grade_level of the
\* ability that estimate_initial_ability returns for g is g again.
C29_GradeLevelRoundTrip ==
    ( /\ result.op = "estimate_initial_ability"
      /\ result.body[1].grade_level # None )
    => determine_grade_level(result.body[1].value) = result.body[1].grade_level[1]

\* C30: a step that returns analytics leaves every session (ability, asked
\* list, response log, assistance log), the table of sessions and the
\* difficulty cache as they were.
C30_GetAnalyticsReadOnly ==
    [][ result'.op = "get_analytics"
        => /\ heap' = heap
           /\ session_data' = session_data
           /\ question_difficulties' = question_difficulties ]_vars

\* analytics have been returned for a session that has an asked question, a
\* response record and an assistance event, with a difficulty in the cache
C30_AnalyticsOfAnActiveSession ==
    /\ result.op = "get_analytics"
    /\ result.status = "ok"
    /\ Live(result.sid).questions_asked # << >>
    /\ Live(result.sid).responses # << >>
    /\ Live(result.sid).ai_help_usage # << >>
    /\ DOMAIN question_difficulties # {}

=============================================================================
